---- MODULE Spec2Model ----
(***************************************************************************)
(* Model of the Talos Python SDK client (sdk/python/talos/client.py).      *)
(*                                                                         *)
(* A TalosClient holds a base URL, an optional API key and a session       *)
(* whose headers are set once at construction.  Each of the seven          *)
(* operations builds one request, blocks on the session's get/post, and    *)
(* then checks the status, decodes the JSON body and builds its result.    *)
(* The blocking call is the only point where the environment acts, so      *)
(* every operation is two steps: the call up to the request being sent,    *)
(* and the rest of the handler once the reply (or a transport error) is    *)
(* there.                                                                  *)
(*                                                                         *)
(* Strings that the code takes apart (the base URL) are sequences of       *)
(* tokens, "/" being a token of its own.  Optional[str] is a sequence of   *)
(* length at most one.  JSON objects are functions from keys to values,    *)
(* JSON arrays are sequences.                                              *)
(***************************************************************************)
EXTENDS Integers, Sequences, FiniteSets, TLC

VARIABLES given, base_url, api_key, headers,
          pc, call, request, reply, steps, outcome, ncalls, nsent, nfailed

vars == <<given, base_url, api_key, headers,
          pc, call, request, reply, steps, outcome, ncalls, nsent, nfailed>>

(* ------------------------------ bounds -------------------------------- *)

MaxCalls == 2

MaxLen == 2

MaxSlashes == 1

(* --------------------------- Python values ---------------------------- *)

None == <<>>

Some(s) == <<s>>

Truthy(opt) == opt /= None /\ opt[1] /= ""

ArgOr(arg, default) == IF arg = <<>> THEN default ELSE arg[1]

EmptyDict == [k \in {} |-> ""]

(* --------------------------- construction ----------------------------- *)

RStripNothing(s) == s

RECURSIVE RStrip(_)
RStrip(s) ==
    IF s /= <<>> /\ s[Len(s)] = "/"
    THEN RStrip(SubSeq(s, 1, Len(s) - 1))
    ELSE s

DefaultBaseUrl == <<"http:", "/", "/", "localhost:8080">>

BearerHeader(key) == "Bearer " \o key

SessionHeadersNoAuth(key) == EmptyDict

SessionHeaders(key) ==
    IF Truthy(key)
    THEN [h \in {"Authorization"} |-> BearerHeader(key[1])]
    ELSE EmptyDict

RECURSIVE Slashes(_)
Slashes(n) == IF n = 0 THEN <<>> ELSE <<"/">> \o Slashes(n - 1)

Hosts == {<<"http:", "/", "/", "x">>}

BaseUrlArgs == {<<>>} \cup {Some(h \o Slashes(n)) : h \in Hosts, n \in 0..MaxSlashes}

ApiKeyArgs == {None, Some(""), Some("k1")}

Idle == [kind |-> "none"]

Init ==
    \E b \in BaseUrlArgs, k \in ApiKeyArgs :
        /\ given = [base_url |-> b, api_key |-> k]
        /\ base_url = RStrip(ArgOr(b, DefaultBaseUrl))
        /\ api_key = k
        /\ headers = SessionHeaders(k)
        /\ pc = "idle"
        /\ call = Idle
        /\ request = Idle
        /\ reply = Idle
        /\ steps = <<>>
        /\ outcome = Idle
        /\ ncalls = 0
        /\ nsent = 0
        /\ nfailed = 0

(* ------------------------------ records ------------------------------- *)

TierStatusFields ==
    {"tier", "name", "model", "active", "requests_today",
     "avg_latency_ms", "success_rate", "status"}

SwarmStatusFields == {"active_tier", "tier_status", "current_action", "queue_depth"}

ResourceFields ==
    {"id", "type", "provider", "region", "cost_per_month",
     "optimization_score", "tags"}

ROIFields == {"ratio", "total_savings", "total_cost", "net_profit"}

(* A dataclass's generated __init__ called with **kwargs: a TypeError when  *)
(* a field has no argument or an argument names no field, otherwise the     *)
(* instance holds each argument as passed.                                  *)
DataclassInitLenient(fields, kwargs) ==
    IF fields \subseteq DOMAIN kwargs
    THEN [ok |-> TRUE, value |-> [f \in fields |-> kwargs[f]]]
    ELSE [ok |-> FALSE]

DataclassInit(fields, kwargs) ==
    IF DOMAIN kwargs = fields
    THEN [ok |-> TRUE, value |-> [f \in fields |-> kwargs[f]]]
    ELSE [ok |-> FALSE]

(* The list comprehension over items: the first TypeError ends it.          *)
ListOfReversed(fields, items) ==
    IF \E i \in 1..Len(items) : ~DataclassInit(fields, items[i]).ok
    THEN [ok |-> FALSE]
    ELSE [ok |-> TRUE,
          value |-> [i \in 1..Len(items) |->
                        DataclassInit(fields, items[Len(items) + 1 - i]).value]]

ListOfSkipping(fields, items) ==
    LET good == SelectSeq(items, LAMBDA x : DataclassInit(fields, x).ok)
    IN  [ok |-> TRUE,
         value |-> [i \in 1..Len(good) |-> DataclassInit(fields, good[i]).value]]

ListOf(fields, items) ==
    IF \E i \in 1..Len(items) : ~DataclassInit(fields, items[i]).ok
    THEN [ok |-> FALSE]
    ELSE [ok |-> TRUE,
          value |-> [i \in 1..Len(items) |-> DataclassInit(fields, items[i]).value]]

(* ------------------------------ outcomes ------------------------------ *)

Return(v) == [kind |-> "return", value |-> v]

Raise(e) == [kind |-> "raise", exc |-> e]

RaiseHTTPError(resp) ==
    [kind |-> "raise", exc |-> "HTTPError",
     status_code |-> resp.status_code, response |-> resp]

(* --------------------------- server replies --------------------------- *)

Statuses == {101, 200, 304, 400, 599}

Malformed == [malformed |-> TRUE]

Json(v) == [malformed |-> FALSE, value |-> v]

Drop(obj, key) == [k \in (DOMAIN obj) \ {key} |-> obj[k]]

With(obj, key, val) ==
    [k \in (DOMAIN obj) \cup {key} |-> IF k = key THEN val ELSE obj[k]]

SeqsUpTo(S, n) == UNION {[1..m -> S] : m \in 0..n}

(* Arrays of at most n elements of which at most one is not a complete,   *)
(* exact object.                                                            *)
Arrays(complete, defective, n) ==
    SeqsUpTo(complete, n)
    \cup UNION {{[s EXCEPT ![i] = d] : i \in 1..Len(s), d \in defective} :
                   s \in SeqsUpTo(complete, n)}

Tier1 ==
    [tier |-> 1, name |-> "fast", model |-> "m-small", active |-> TRUE,
     requests_today |-> 12, avg_latency_ms |-> "85.5", success_rate |-> "0.99",
     status |-> "healthy"]

Tier2 ==
    [tier |-> 2, name |-> "deep", model |-> "m-large", active |-> FALSE,
     requests_today |-> 0, avg_latency_ms |-> "900.0", success_rate |-> "0.5",
     status |-> "idle"]

DefectiveTiers ==
    {Drop(Tier1, f) : f \in TierStatusFields} \cup {With(Tier1, "region", "eu")}

Swarm(tiers) ==
    [active_tier |-> 1, tier_status |-> tiers,
     current_action |-> "scanning", queue_depth |-> 4]

SwarmObjects ==
    {Swarm(ts) : ts \in Arrays({Tier1, Tier2}, DefectiveTiers, MaxLen)}
    \cup {Drop(Swarm(<<Tier1>>), f) : f \in SwarmStatusFields}
    \cup {With(Swarm(ts), "uptime", 99) : ts \in {<<Tier1>>, <<With(Tier1, "region", "eu")>>}}

Resource1 ==
    [id |-> "i-1", type |-> "vm", provider |-> "aws", region |-> "us-east-1",
     cost_per_month |-> "120.5", optimization_score |-> "0.7",
     tags |-> [env |-> "prod"]]

Resource2 ==
    [id |-> "b-2", type |-> "bucket", provider |-> "gcp", region |-> "eu-west-1",
     cost_per_month |-> "3.0", optimization_score |-> "0.1",
     tags |-> [env |-> "dev"]]

DefectiveResources ==
    {Drop(Resource1, f) : f \in ResourceFields} \cup {With(Resource1, "owner", "ops")}

ResourceLists == Arrays({Resource1, Resource2}, DefectiveResources, MaxLen)

ROI1 ==
    [ratio |-> "3.5", total_savings |-> "1000.0",
     total_cost |-> "200.0", net_profit |-> "800.0"]

ROIObjects ==
    {ROI1, [ROI1 EXCEPT !.ratio = "0.0"]}
    \cup {Drop(ROI1, f) : f \in ROIFields}
    \cup {With(ROI1, "currency", "usd")}

ChatObjects ==
    {[response |-> "hi"], [response |-> "hi", model |-> "m-small"], [model |-> "m-small"]}

HealthObjects == {[status |-> "ok"]}

OptimizeObjects == {[optimizations_found |-> 3, estimated_savings |-> "120.5"]}

RecommendationLists == {<<>>, <<[id |-> "r1", action |-> "resize"]>>}

Replies(values) ==
    {[kind |-> "error"]}
    \cup {[kind |-> "response", status_code |-> s, body |-> b] :
             s \in Statuses, b \in {Malformed} \cup {Json(v) : v \in values}}

(* ------------------------ the rest of a handler ----------------------- *)

(* requests.Response.raise_for_status as every operation calls it: an      *)
(* HTTPError for a client error (4xx) or a server error (5xx) status.      *)
RaisesForStatusServerOnly(status) == 500 <= status /\ status < 600

RaisesForStatusNever(status) == FALSE

RaisesForStatus(status) == 400 <= status /\ status < 600

BuildSwarmStatus(data) ==
    IF "active_tier" \notin DOMAIN data THEN Raise("KeyError")
    ELSE IF "tier_status" \notin DOMAIN data THEN Raise("KeyError")
    ELSE IF ~ListOf(TierStatusFields, data.tier_status).ok THEN Raise("TypeError")
    ELSE IF "current_action" \notin DOMAIN data THEN Raise("KeyError")
    ELSE IF "queue_depth" \notin DOMAIN data THEN Raise("KeyError")
    ELSE Return([active_tier |-> data.active_tier,
                 tier_status |-> ListOf(TierStatusFields, data.tier_status).value,
                 current_action |-> data.current_action,
                 queue_depth |-> data.queue_depth])

BuildResources(data) ==
    IF ListOf(ResourceFields, data).ok
    THEN Return(ListOf(ResourceFields, data).value)
    ELSE Raise("TypeError")

BuildROI(data) ==
    IF DataclassInit(ROIFields, data).ok
    THEN Return(DataclassInit(ROIFields, data).value)
    ELSE Raise("TypeError")

BuildChat(data) ==
    IF "response" \in DOMAIN data THEN Return(data.response) ELSE Raise("KeyError")

(* What the handler does once session.get/post has come back: the steps it *)
(* reaches, in order, and how the call ends.                               *)
Constructs(op) == op \in {"get_swarm_status", "get_resources", "get_roi", "chat"}

Construct(op, data) ==
    CASE op = "get_swarm_status" -> BuildSwarmStatus(data)
      [] op = "get_resources" -> BuildResources(data)
      [] op = "get_roi" -> BuildROI(data)
      [] op = "chat" -> BuildChat(data)
      [] OTHER -> Return(data)

HandleSuppressing(op, r) ==
    IF r.kind = "error" \/ r.body.malformed
    THEN [steps |-> <<>>, outcome |-> Return(None)]
    ELSE IF RaisesForStatus(r.status_code)
    THEN [steps |-> <<"raise_for_status">>, outcome |-> RaiseHTTPError(r)]
    ELSE [steps |-> <<"raise_for_status", "json">>
                       \o (IF Constructs(op) THEN <<"construct">> ELSE <<>>),
          outcome |-> Construct(op, r.body.value)]

Handle(op, r) ==
    IF r.kind = "error"
    THEN [steps |-> <<>>, outcome |-> Raise("ConnectionError")]
    ELSE IF RaisesForStatus(r.status_code)
    THEN [steps |-> <<"raise_for_status">>, outcome |-> RaiseHTTPError(r)]
    ELSE IF r.body.malformed
    THEN [steps |-> <<"raise_for_status", "json">>,
          outcome |-> Raise("JSONDecodeError")]
    ELSE [steps |-> <<"raise_for_status", "json">>
                       \o (IF Constructs(op) THEN <<"construct">> ELSE <<>>),
          outcome |-> Construct(op, r.body.value)]

(* ------------------------------ requests ------------------------------ *)

NoBody == <<>>

Get(path, params) ==
    [method |-> "GET", url |-> base_url \o path, headers |-> headers,
     params |-> params, json |-> NoBody]

Post(path, payload) ==
    [method |-> "POST", url |-> base_url \o path, headers |-> headers,
     params |-> EmptyDict, json |-> <<payload>>]

Send(op, args, req) ==
    /\ pc = "idle"
    /\ ncalls < MaxCalls
    /\ pc' = op
    /\ call' = [kind |-> "call", op |-> op, args |-> args]
    /\ request' = req
    /\ reply' = Idle
    /\ steps' = <<"request">>
    /\ outcome' = [kind |-> "pending"]
    /\ ncalls' = ncalls + 1
    /\ nsent' = nsent + 1
    /\ UNCHANGED <<given, base_url, api_key, headers, nfailed>>

Receive(op, replies) ==
    /\ pc = op
    /\ \E r \in replies :
        /\ reply' = r
        /\ steps' = steps \o Handle(op, r).steps
        /\ outcome' = Handle(op, r).outcome
        /\ nfailed' = IF Handle(op, r).outcome.kind = "raise"
                      THEN nfailed + 1 ELSE nfailed
    /\ pc' = "idle"
    /\ UNCHANGED <<given, base_url, api_key, headers, call, request, ncalls, nsent>>

(* ----------------------------- operations ----------------------------- *)

health ==
    Send("health", <<>>, Get(<<"/", "health">>, EmptyDict))

health_returns ==
    Receive("health", Replies(HealthObjects))

get_swarm_status ==
    Send("get_swarm_status", <<>>,
         Get(<<"/", "api", "/", "swarm", "/", "live">>, EmptyDict))

get_swarm_status_returns ==
    Receive("get_swarm_status", Replies(SwarmObjects))

OptimizationTypes == {"full", "cost"}

RiskLimits == {"3.0"}

Unspecified == <<>>

OptionalArg(S) == {Unspecified} \cup {<<v>> : v \in S}

OptimizePayloadNoDefault(type, risk_limit, dry_run) ==
    [type |-> ArgOr(type, "full"),
     risk_limit |-> ArgOr(risk_limit, "7.0"),
     dry_run |-> ArgOr(dry_run, FALSE)]

OptimizePayload(type, risk_limit, dry_run) ==
    [type |-> ArgOr(type, "full"),
     risk_limit |-> ArgOr(risk_limit, "7.0"),
     dry_run |-> ArgOr(dry_run, TRUE)]

run_optimization ==
    \E type \in OptionalArg(OptimizationTypes),
       risk_limit \in OptionalArg(RiskLimits),
       dry_run \in OptionalArg(BOOLEAN) :
        Send("run_optimization",
             [type |-> type, risk_limit |-> risk_limit, dry_run |-> dry_run],
             Post(<<"/", "api", "/", "optimize">>,
                  OptimizePayload(type, risk_limit, dry_run)))

run_optimization_returns ==
    Receive("run_optimization", Replies(OptimizeObjects))

Providers == {"", "aws"}

ResourceTypes == {"", "vm"}

OptionalStr(S) == {None} \cup {Some(v) : v \in S}

ResourceParamsSwapped(provider, resource_type) ==
    [k \in (IF Truthy(provider) THEN {"type"} ELSE {})
           \cup (IF Truthy(resource_type) THEN {"provider"} ELSE {}) |->
        IF k = "type" THEN provider[1] ELSE resource_type[1]]

ResourceParams(provider, resource_type) ==
    [k \in (IF Truthy(provider) THEN {"provider"} ELSE {})
           \cup (IF Truthy(resource_type) THEN {"type"} ELSE {}) |->
        IF k = "provider" THEN provider[1] ELSE resource_type[1]]

get_resources ==
    \E provider \in OptionalStr(Providers),
       resource_type \in OptionalStr(ResourceTypes) :
        Send("get_resources",
             [provider |-> provider, resource_type |-> resource_type],
             Get(<<"/", "api", "/", "resources">>,
                 ResourceParams(provider, resource_type)))

get_resources_returns ==
    Receive("get_resources", Replies(ResourceLists))

get_roi ==
    Send("get_roi", <<>>, Get(<<"/", "api", "/", "roi">>, EmptyDict))

get_roi_returns ==
    Receive("get_roi", Replies(ROIObjects))

Messages == {"", "hello"}

chat ==
    \E message \in Messages :
        Send("chat", [message |-> message],
             Post(<<"/", "api", "/", "ai", "/", "chat">>, [message |-> message]))

chat_returns ==
    Receive("chat", Replies(ChatObjects))

get_recommendations ==
    Send("get_recommendations", <<>>,
         Get(<<"/", "api", "/", "recommendations">>, EmptyDict))

get_recommendations_returns ==
    Receive("get_recommendations", Replies(RecommendationLists))

Next ==
    \/ health
    \/ health_returns
    \/ get_swarm_status
    \/ get_swarm_status_returns
    \/ run_optimization
    \/ run_optimization_returns
    \/ get_resources
    \/ get_resources_returns
    \/ get_roi
    \/ get_roi_returns
    \/ chat
    \/ chat_returns
    \/ get_recommendations
    \/ get_recommendations_returns

Spec == Init /\ [][Next]_vars

(* ============================ properties ============================== *)

Called(op) == call.kind = "call" /\ call.op = op

Answered == reply.kind = "response"

Is2xx(status) == 200 <= status /\ status <= 299

Is4xx5xx(status) == 400 <= status /\ status <= 599

Operations ==
    {"health", "get_swarm_status", "run_optimization", "get_resources",
     "get_roi", "chat", "get_recommendations"}

DeserializationErrors == {"JSONDecodeError", "KeyError", "TypeError"}

HTTPStatusFailure ==
    /\ outcome.kind = "raise"
    /\ outcome.exc = "HTTPError"
    /\ outcome.status_code = reply.status_code
    /\ outcome.response = reply

(* C1: run_optimization posts a body of exactly the keys type, risk_limit  *)
(* and dry_run, holding the caller's values or the defaults "full", 7.0    *)
(* and true; dry_run is false only when the caller passed dry_run=False.   *)
C1_DryRunDefault ==
    Called("run_optimization") =>
        /\ request.method = "POST"
        /\ Len(request.json) = 1
        /\ DOMAIN request.json[1] = {"type", "risk_limit", "dry_run"}
        /\ (request.json[1].dry_run = FALSE) <=> (call.args.dry_run = <<FALSE>>)
        /\ (call.args.dry_run = Unspecified) => (request.json[1].dry_run = TRUE)
        /\ request.json[1].dry_run =
              (IF call.args.dry_run = Unspecified THEN TRUE ELSE call.args.dry_run[1])
        /\ request.json[1].type =
              (IF call.args.type = Unspecified THEN "full" ELSE call.args.type[1])
        /\ request.json[1].risk_limit =
              (IF call.args.risk_limit = Unspecified THEN "7.0"
               ELSE call.args.risk_limit[1])

C1_Witness ==
    /\ Called("run_optimization")
    /\ call.args = [type |-> Unspecified, risk_limit |-> Unspecified,
                    dry_run |-> Unspecified]
    /\ request.json = <<[type |-> "full", risk_limit |-> "7.0", dry_run |-> TRUE]>>

(* C2 as stated: whatever the operation, every answer with a status        *)
(* outside 200-299 (1xx and 3xx included) ends the call in an HTTP-status  *)
(* failure carrying the status and the response.                           *)
C2_AnyNon2xxFails ==
    (Answered /\ ~Is2xx(reply.status_code)) => HTTPStatusFailure

(* C2 amended: whatever the operation, every answer with a 4xx or 5xx      *)
(* status ends the call in an HTTP-status failure carrying the status and  *)
(* the response, never in a returned value.                                *)
C2_ErrorStatusFails ==
    (Answered /\ Is4xx5xx(reply.status_code)) =>
        /\ call.op \in Operations
        /\ outcome.kind /= "return"
        /\ HTTPStatusFailure

C2_Witness ==
    /\ Called("get_recommendations")
    /\ Answered
    /\ reply.status_code = 400
    /\ outcome.kind = "raise"
    /\ outcome.exc = "HTTPError"
    /\ outcome.status_code = 400

(* C3: the status check comes before decoding; on a 4xx or 5xx answer the  *)
(* handler stops at the status check with the HTTP-status failure and      *)
(* reaches neither the JSON decoding nor the record construction, whatever *)
(* the body is.                                                            *)
C3_StatusBeforeDecode ==
    /\ (Answered /\ Is4xx5xx(reply.status_code)) =>
          /\ steps = <<"request", "raise_for_status">>
          /\ outcome.kind = "raise"
          /\ outcome.exc = "HTTPError"
          /\ outcome.exc \notin DeserializationErrors
    /\ \A i \in 1..Len(steps) :
          steps[i] \in {"json", "construct"} =>
              \E j \in 1..(i - 1) : steps[j] = "raise_for_status"

C3_Witness ==
    /\ Called("get_roi")
    /\ Answered
    /\ reply.status_code = 599
    /\ reply.body = Json(ROI1)
    /\ outcome.exc = "HTTPError"
    /\ steps = <<"request", "raise_for_status">>

MissingField ==
    /\ Answered
    /\ ~reply.body.malformed
    /\ \/ /\ Called("get_swarm_status")
          /\ \/ \E f \in SwarmStatusFields : f \notin DOMAIN reply.body.value
             \/ /\ "tier_status" \in DOMAIN reply.body.value
                /\ \E i \in 1..Len(reply.body.value.tier_status) :
                      \E f \in TierStatusFields :
                          f \notin DOMAIN reply.body.value.tier_status[i]
       \/ /\ Called("get_resources")
          /\ \E i \in 1..Len(reply.body.value) :
                \E f \in ResourceFields : f \notin DOMAIN reply.body.value[i]
       \/ /\ Called("get_roi")
          /\ \E f \in ROIFields : f \notin DOMAIN reply.body.value
       \/ /\ Called("chat")
          /\ "response" \notin DOMAIN reply.body.value

(* C4: a 2xx answer that lacks a required field (of SwarmStatus, of any    *)
(* TierStatus or Resource element, of ROI, or chat's response) ends the    *)
(* call in a deserialization failure, which is not the HTTP-status         *)
(* failure; no record is returned.                                         *)
C4_MissingFieldFails ==
    (MissingField /\ Is2xx(reply.status_code)) =>
        /\ outcome.kind = "raise"
        /\ outcome.exc \in DeserializationErrors
        /\ outcome.exc /= "HTTPError"

C4_Witness ==
    /\ Called("get_resources")
    /\ Answered
    /\ reply.status_code = 200
    /\ reply.body = Json(<<Resource2, Drop(Resource1, "tags")>>)
    /\ outcome = Raise("TypeError")

SameFields(fields, record, object) ==
    /\ DOMAIN record = fields
    /\ \A f \in fields : record[f] = object[f]

SameElements(fields, records, objects) ==
    /\ Len(records) = Len(objects)
    /\ \A i \in 1..Len(objects) : SameFields(fields, records[i], objects[i])

DocumentedShape ==
    /\ Answered
    /\ ~reply.body.malformed
    /\ \/ /\ Called("get_swarm_status")
          /\ DOMAIN reply.body.value = SwarmStatusFields
          /\ \A i \in 1..Len(reply.body.value.tier_status) :
                DOMAIN reply.body.value.tier_status[i] = TierStatusFields
       \/ /\ Called("get_resources")
          /\ \A i \in 1..Len(reply.body.value) :
                DOMAIN reply.body.value[i] = ResourceFields
       \/ /\ Called("get_roi")
          /\ DOMAIN reply.body.value = ROIFields

(* C5: on a 2xx answer of the documented shape get_swarm_status,           *)
(* get_resources and get_roi return records whose fields are the body's    *)
(* values, and sequences of the arrays' length and order.                  *)
C5_RoundTrip ==
    (DocumentedShape /\ Is2xx(reply.status_code)) =>
        /\ outcome.kind = "return"
        /\ Called("get_roi") =>
              /\ SameFields(ROIFields, outcome.value, reply.body.value)
              /\ (reply.body.value = ROI1) =>
                    outcome.value = [ratio |-> "3.5", total_savings |-> "1000.0",
                                     total_cost |-> "200.0", net_profit |-> "800.0"]
        /\ Called("get_resources") =>
              SameElements(ResourceFields, outcome.value, reply.body.value)
        /\ Called("get_swarm_status") =>
              /\ DOMAIN outcome.value = SwarmStatusFields
              /\ outcome.value.active_tier = reply.body.value.active_tier
              /\ outcome.value.current_action = reply.body.value.current_action
              /\ outcome.value.queue_depth = reply.body.value.queue_depth
              /\ SameElements(TierStatusFields, outcome.value.tier_status,
                              reply.body.value.tier_status)

C5_Witness ==
    /\ Called("get_swarm_status")
    /\ Answered
    /\ reply.status_code = 200
    /\ reply.body = Json(Swarm(<<Tier2, Tier1>>))
    /\ outcome.kind = "return"
    /\ outcome.value.tier_status = <<Tier2, Tier1>>

(* C6 as stated: the query of get_resources holds provider exactly when    *)
(* the provider argument is not None and type exactly when resource_type   *)
(* is not None, with the given values, and nothing else.                   *)
C6_ParamsIffSupplied ==
    Called("get_resources") =>
        /\ DOMAIN request.params \subseteq {"provider", "type"}
        /\ ("provider" \in DOMAIN request.params) <=> (call.args.provider /= None)
        /\ ("type" \in DOMAIN request.params) <=> (call.args.resource_type /= None)

(* C6 amended: the query of get_resources holds provider exactly when the  *)
(* provider argument is a non-empty string and type exactly when           *)
(* resource_type is a non-empty string, with the given values, and nothing *)
(* else.                                                                   *)
C6_ParamsIffNonEmpty ==
    Called("get_resources") =>
        /\ request.method = "GET"
        /\ request.json = NoBody
        /\ DOMAIN request.params \subseteq {"provider", "type"}
        /\ ("provider" \in DOMAIN request.params) <=>
              (call.args.provider /= None /\ call.args.provider /= Some(""))
        /\ ("type" \in DOMAIN request.params) <=>
              (call.args.resource_type /= None /\ call.args.resource_type /= Some(""))
        /\ ("provider" \in DOMAIN request.params) =>
              request.params["provider"] = call.args.provider[1]
        /\ ("type" \in DOMAIN request.params) =>
              request.params["type"] = call.args.resource_type[1]

C6_Witness ==
    /\ Called("get_resources")
    /\ call.args = [provider |-> Some("aws"), resource_type |-> None]
    /\ DOMAIN request.params = {"provider"}
    /\ request.params["provider"] = "aws"

(* C7 as stated: with a credential string given at construction every     *)
(* request carries Authorization: Bearer <credential>; with none given no  *)
(* request carries an Authorization header.                                *)
C7_BearerWhenGiven ==
    (call.kind = "call") =>
        IF given.api_key /= None
        THEN /\ "Authorization" \in DOMAIN request.headers
             /\ request.headers["Authorization"] = "Bearer " \o given.api_key[1]
        ELSE "Authorization" \notin DOMAIN request.headers

(* C7 amended: with a non-empty credential string given at construction    *)
(* every request carries Authorization: Bearer <credential>; with none or  *)
(* an empty one no request carries an Authorization header; no operation   *)
(* changes the session's headers or the stored credential.                 *)
C7_BearerWhenNonEmpty ==
    /\ [](call.kind = "call" =>
            IF given.api_key /= None /\ given.api_key /= Some("")
            THEN /\ DOMAIN request.headers = {"Authorization"}
                 /\ request.headers["Authorization"] = "Bearer " \o given.api_key[1]
            ELSE "Authorization" \notin DOMAIN request.headers)
    /\ [][headers' = headers /\ api_key' = api_key /\ given' = given]_vars

C7_Witness ==
    /\ given.api_key = Some("k1")
    /\ nfailed >= 1
    /\ ncalls >= 2
    /\ pc /= "idle"
    /\ request.headers = [h \in {"Authorization"} |-> "Bearer k1"]

(* C8: a call sends exactly one request whatever its outcome, and a        *)
(* transport, HTTP-status or decoding failure ends the call by reaching    *)
(* the caller, never by a returned value.                                  *)
C8_SingleAttempt ==
    /\ [](nsent = ncalls)
    /\ [][/\ (pc = "idle" /\ pc' /= "idle") => nsent' = nsent + 1
          /\ (pc /= "idle") =>
                /\ nsent' = nsent
                /\ ncalls' = ncalls
                /\ request' = request
                /\ pc' = "idle"
                /\ outcome'.kind \in {"return", "raise"}
                /\ (reply'.kind = "error") => outcome' = Raise("ConnectionError")
                /\ (reply'.kind = "response" /\ Is4xx5xx(reply'.status_code)) =>
                      outcome'.kind = "raise"
                /\ (reply'.kind = "response" /\ reply'.body.malformed) =>
                      outcome'.kind = "raise"
                /\ (outcome'.kind = "raise") <=> (nfailed' = nfailed + 1)]_vars

C8_Witness ==
    /\ ncalls = 2
    /\ nsent = 2
    /\ nfailed = 2
    /\ reply.kind = "error"
    /\ outcome = Raise("ConnectionError")

DocumentedMethod(op) ==
    IF op \in {"run_optimization", "chat"} THEN "POST" ELSE "GET"

DocumentedPath(op) ==
    CASE op = "health" -> <<"/", "health">>
      [] op = "get_swarm_status" -> <<"/", "api", "/", "swarm", "/", "live">>
      [] op = "run_optimization" -> <<"/", "api", "/", "optimize">>
      [] op = "get_resources" -> <<"/", "api", "/", "resources">>
      [] op = "get_roi" -> <<"/", "api", "/", "roi">>
      [] op = "chat" -> <<"/", "api", "/", "ai", "/", "chat">>
      [] op = "get_recommendations" -> <<"/", "api", "/", "recommendations">>

GivenBaseUrl ==
    IF given.base_url = <<>> THEN DefaultBaseUrl ELSE given.base_url[1]

(* C9: every request uses the documented method and the URL made of the    *)
(* construction-time base URL without its trailing slashes followed by the *)
(* documented path, chat posting exactly {message}; no operation changes   *)
(* the stored base URL or credential.                                      *)
C9_DocumentedTargets ==
    /\ [](/\ \E n \in 0..Len(GivenBaseUrl) : GivenBaseUrl = base_url \o Slashes(n)
          /\ (base_url /= <<>>) => base_url[Len(base_url)] /= "/"
          /\ (call.kind = "call") =>
                /\ call.op \in Operations
                /\ request.method = DocumentedMethod(call.op)
                /\ request.url = base_url \o DocumentedPath(call.op)
                /\ request.url[Len(base_url) + 1] = "/"
                /\ request.url[Len(base_url) + 2] /= "/"
                /\ (call.op = "chat") =>
                      request.json = <<[message |-> call.args.message]>>
                /\ (request.method = "GET") => request.json = NoBody)
    /\ [][base_url' = base_url /\ api_key' = api_key]_vars

C9_Witness ==
    /\ given.base_url = Some(<<"http:", "/", "/", "x", "/">>)
    /\ ncalls = 2
    /\ Called("get_swarm_status")
    /\ request.method = "GET"
    /\ request.url = <<"http:", "/", "/", "x", "/", "api", "/", "swarm", "/", "live">>

ExtraKeyInElement ==
    /\ Answered
    /\ ~reply.body.malformed
    /\ \/ /\ Called("get_swarm_status")
          /\ "tier_status" \in DOMAIN reply.body.value
          /\ \E i \in 1..Len(reply.body.value.tier_status) :
                (DOMAIN reply.body.value.tier_status[i]) \ TierStatusFields /= {}
       \/ /\ Called("get_resources")
          /\ \E i \in 1..Len(reply.body.value) :
                (DOMAIN reply.body.value[i]) \ ResourceFields /= {}
       \/ /\ Called("get_roi")
          /\ (DOMAIN reply.body.value) \ ROIFields /= {}

ExtraKeyAtTopOnly ==
    /\ Answered
    /\ ~reply.body.malformed
    /\ \/ /\ Called("get_swarm_status")
          /\ SwarmStatusFields \subseteq DOMAIN reply.body.value
          /\ (DOMAIN reply.body.value) \ SwarmStatusFields /= {}
          /\ \A i \in 1..Len(reply.body.value.tier_status) :
                DOMAIN reply.body.value.tier_status[i] = TierStatusFields
       \/ /\ Called("chat")
          /\ "response" \in DOMAIN reply.body.value
          /\ (DOMAIN reply.body.value) \ {"response"} /= {}

(* C10: on a 2xx answer an extra key inside a TierStatus element, a        *)
(* Resource element or the ROI object ends the call in a deserialization   *)
(* failure, while an extra key at the top level of the swarm status or of  *)
(* the chat reply is ignored and the call returns the documented fields.   *)
C10_ExtraKeys ==
    /\ (ExtraKeyInElement /\ Is2xx(reply.status_code)) =>
          /\ outcome.kind = "raise"
          /\ outcome.exc \in {"KeyError", "TypeError"}
    /\ (ExtraKeyAtTopOnly /\ Is2xx(reply.status_code)) =>
          /\ outcome.kind = "return"
          /\ Called("get_swarm_status") =>
                /\ DOMAIN outcome.value = SwarmStatusFields
                /\ outcome.value.tier_status = reply.body.value.tier_status
          /\ Called("chat") => outcome.value = reply.body.value.response

C10_Witness ==
    /\ Called("get_swarm_status")
    /\ Answered
    /\ reply.status_code = 200
    /\ reply.body = Json(With(Swarm(<<Tier1>>), "uptime", 99))
    /\ outcome = Return(Swarm(<<Tier1>>))

====
